---- MODULE Spec2Model ----
(***************************************************************************)
(* Whisper Desktop Transcriber (src/main.py): the recording controller     *)
(* (VoiceRecorderApp: start_recording, record_audio_thread, stop_recording,*)
(* the elapsed-seconds QTimer) and the transcription supervisor            *)
(* (TranscriptionWorker.run with its two _read_stream threads), together   *)
(* with the Qt handlers that receive the worker's queued signals.          *)
(*                                                                         *)
(* Threads: the UI thread runs one handler at a time (every handler is one *)
(* action); each record_audio_thread, each TranscriptionWorker.run and     *)
(* each _read_stream thread advances by the steps below, interleaved       *)
(* freely with the handlers and with each other.                           *)
(***************************************************************************)
EXTENDS Integers, Sequences, FiniteSets, TLC

\* ---------------------------------------------------------------- bounds
MaxSessions == 2    \* presses of the record control that reach audio_frames = []
MaxChunks == 2      \* chunks the device delivers in total
MaxTime == 1        \* ticks of the elapsed-seconds timer that are counted
MaxJobs == 2        \* TranscriptionWorker objects created
MaxLines == 2       \* lines a child writes to each stream, one job submitted
MaxText == 3        \* characters in the result file
JobsLines == 1      \* lines a child writes to each stream, MaxJobs jobs submitted
BothSessions == 1   \* presses of the record control beside a transcription job

\* ----------------------------------------------- program constants (setup_audio)
channels == 1
rate == 44100
sample_width == 2   \* pyaudio.paInt16: get_sample_size(format)

VARIABLES
    \* VoiceRecorderApp fields
    recording, audio_frames, audio_stream, audio, timer_active, recording_time,
    transcription_worker, last_audio_file, enabled, result_text,
    \* capture side: device and threads
    open_streams, session, next_chunk, loops, files, disk, dialog,
    \* transcription side: worker objects, their signal history, the UI event queue
    whisper_installed, workers, emitted, queue, closed

recVars == <<recording, audio_frames, audio_stream, timer_active, recording_time,
             open_streams, session, next_chunk, loops, files>>
jobVars == <<workers, emitted, queue>>
vars == <<recording, audio_frames, audio_stream, audio, timer_active, recording_time,
          transcription_worker, last_audio_file, enabled, result_text,
          open_streams, session, next_chunk, loops, files, disk, dialog,
          whisper_installed, workers, emitted, queue, closed>>

None == <<>>
ExtFiles == {<<"ext", 1>>}        \* audio files the user can pick in the file dialog
ExitCodes == {0, 1, 2}            \* return codes of the child process

Controls == {"transcribe_button", "record_button", "open_file_button", "model_combo",
             "language_combo", "device_combo", "keep_output_files_checkbox"}
\* the six controls start_recording disables and stop_recording_ui_reset sets
RecordingControls == Controls \ {"record_button"}
SettingControls == Controls \ {"record_button", "transcribe_button"}

\* f with every control of S set to v
SetEnabled(f, S, v) == [c \in Controls |-> IF c \in S THEN v ELSE f[c]]

\* ------------------------------------------------------------------ Init
\* VoiceRecorderApp.__init__, init_ui (transcribe_button disabled) and
\* setup_audio (PyAudio() may raise: audio stays None, record_button disabled)
NoLoop == [pc |-> "none", data |-> None]

Init ==
    /\ recording = FALSE
    /\ audio_frames = <<>>
    /\ audio_stream = 0
    /\ audio \in BOOLEAN
    /\ timer_active = FALSE
    /\ recording_time = 0
    /\ transcription_worker = 0
    /\ last_audio_file = None
    /\ enabled = [c \in Controls |->
                    IF c = "transcribe_button" THEN FALSE
                    ELSE IF c = "record_button" THEN audio ELSE TRUE]
    /\ open_streams = {}
    /\ session = 0
    /\ next_chunk = 1
    /\ loops = [t \in 1..MaxSessions |-> NoLoop]
    /\ files = <<>>
    /\ disk = ExtFiles
    /\ dialog = "None"
    /\ result_text = None
    /\ whisper_installed \in BOOLEAN
    /\ workers = <<>>
    /\ emitted = <<>>
    /\ queue = <<>>
    /\ closed = FALSE

\* ------------------------------------------------- recording controller
\* stop_recording_ui_reset(success, filename): transcribe_button follows
\* success, the five other controls are enabled
stop_recording_ui_reset(f, success) ==
    SetEnabled(SetEnabled(f, SettingControls, TRUE), {"transcribe_button"}, success)

\* a start_recording without the test of the device
DeviceAssumed(a) == FALSE

\* `if not self.audio:` in start_recording
DeviceMissing(a) == ~a

\* start_recording, reached from toggle_recording when the flag is false
start_recording ==
    IF DeviceMissing(audio)
    THEN /\ dialog' = "DeviceUnavailable"
         /\ UNCHANGED <<recVars, enabled>>
    ELSE /\ session < MaxSessions
         /\ session' = session + 1
         /\ audio_frames' = <<>>
         /\ \/ \* audio.open(...) raises: except branch, stop_recording_ui_reset()
               /\ dialog' = "RecordingError"
               /\ enabled' = stop_recording_ui_reset(enabled, TRUE)
               /\ UNCHANGED <<recording, audio_stream, timer_active, recording_time,
                              open_streams, next_chunk, loops, files>>
            \/ \* the stream opens; flag, timer, controls, capture thread
               /\ audio_stream' = session + 1
               /\ open_streams' = open_streams \cup {session + 1}
               /\ recording' = TRUE
               /\ recording_time' = 0
               /\ timer_active' = TRUE
               /\ enabled' = SetEnabled(enabled, RecordingControls, FALSE)
               /\ loops' = [loops EXCEPT ![session + 1] = [pc |-> "test", data |-> None]]
               /\ UNCHANGED <<next_chunk, files, dialog>>

\* a stop_recording that forgets the stream
StreamsKeptOpen == open_streams

\* the streams left open once stop_recording has stopped and closed audio_stream
StreamsAfterStop ==
    IF audio_stream # 0 THEN open_streams \ {audio_stream} ELSE open_streams

\* the file wave.open(...) writes from the buffer
WaveFile == [sess |-> session, frames |-> audio_frames, nchannels |-> channels,
             sampwidth |-> sample_width, framerate |-> rate]

\* a stop_recording without the test for an empty buffer
NeverEmpty(frames) == FALSE

\* `if not self.audio_frames:` in stop_recording
NoFrames(frames) == frames = <<>>

\* stop_recording, all but the device's set of open streams
StopBody ==
    /\ recording' = FALSE
    /\ timer_active' = FALSE
    /\ audio_stream' = 0
    /\ IF NoFrames(audio_frames)
       THEN /\ dialog' = "EmptyRecording"
            /\ enabled' = stop_recording_ui_reset(enabled, FALSE)
            /\ UNCHANGED <<files, disk, last_audio_file>>
       ELSE \/ /\ files' = Append(files, WaveFile)
               /\ disk' = disk \cup {<<"rec", session>>}
               /\ last_audio_file' = <<"rec", session>>
               /\ enabled' = stop_recording_ui_reset(enabled, TRUE)
               /\ UNCHANGED dialog
            \/ \* wave.open / writeframes raises
               /\ dialog' = "RecordingWriteFailed"
               /\ enabled' = stop_recording_ui_reset(enabled, FALSE)
               /\ UNCHANGED <<files, disk, last_audio_file>>
    /\ UNCHANGED <<audio_frames, recording_time, session, next_chunk, loops>>

stop_recording ==
    /\ StopBody
    /\ open_streams' = StreamsAfterStop

\* the record button's click handler
ToggleStart ==
    /\ ~closed /\ enabled["record_button"] /\ ~recording
    /\ start_recording
    /\ UNCHANGED <<audio, transcription_worker, last_audio_file, disk, result_text,
                   whisper_installed, jobVars, closed>>

ToggleStop ==
    /\ ~closed /\ enabled["record_button"] /\ recording
    /\ stop_recording
    /\ UNCHANGED <<audio, transcription_worker, result_text, whisper_installed,
                   jobVars, closed>>

\* QTimer timeout -> update_recording_time
UpdateRecordingTime ==
    /\ ~closed /\ timer_active
    /\ recording_time < MaxTime
    /\ recording_time' = recording_time + 1
    /\ UNCHANGED <<recording, audio_frames, audio_stream, audio, timer_active,
                   transcription_worker, last_audio_file, enabled, open_streams,
                   session, next_chunk, loops, files, disk, dialog, result_text,
                   whisper_installed, jobVars, closed>>

\* record_audio_thread of the loop started by session t ------------------
LoopFrame == <<audio, timer_active, recording_time, transcription_worker, result_text,
               last_audio_file, enabled, open_streams, session, files, disk, dialog,
               whisper_installed, jobVars, closed, audio_stream>>

\* while self.recording:
LoopTest(t) ==
    /\ loops[t].pc = "test"
    /\ loops' = [loops EXCEPT ![t].pc = IF recording THEN "read" ELSE "done"]
    /\ UNCHANGED <<LoopFrame, recording, audio_frames, next_chunk>>

\* self.audio_stream.read: the attribute is fetched, then the call blocks;
\* a fetch of None raises, caught by except: recording = False; break
LoopRead(t) ==
    /\ loops[t].pc = "read"
    /\ IF audio_stream = 0
       THEN /\ recording' = FALSE
            /\ loops' = [loops EXCEPT ![t].pc = "done"]
       ELSE /\ loops' = [loops EXCEPT ![t].pc = "wait"]
            /\ UNCHANGED recording
    /\ UNCHANGED <<LoopFrame, audio_frames, next_chunk>>

\* the blocking read ends: a chunk, or an exception (overflow, device lost,
\* stream stopped or closed under the call)
LoopReturn(t) ==
    /\ loops[t].pc = "wait"
    /\ \/ /\ next_chunk <= MaxChunks
          /\ loops' = [loops EXCEPT ![t] = [pc |-> "append", data |-> <<t, next_chunk>>]]
          /\ next_chunk' = next_chunk + 1
          /\ UNCHANGED recording
       \/ /\ recording' = FALSE
          /\ loops' = [loops EXCEPT ![t].pc = "done"]
          /\ UNCHANGED next_chunk
    /\ UNCHANGED <<LoopFrame, audio_frames>>

\* self.audio_frames.append(data): the list self.audio_frames names now
LoopAppend(t) ==
    /\ loops[t].pc = "append"
    /\ audio_frames' = Append(audio_frames, loops[t].data)
    /\ loops' = [loops EXCEPT ![t] = [pc |-> "test", data |-> None]]
    /\ UNCHANGED <<LoopFrame, recording, next_chunk>>

\* ------------------------------------------------ transcription supervisor
\* One TranscriptionWorker: the run thread's position rpc, the two
\* _read_stream threads' positions opc (stdout) and epc (stderr), the child
\* process, and _is_error_emitted.
\* plus what run computes: the argv it hands to Popen, the text it read, the
\* transcription it emits, and the sibling output files of the audio's base
\* name on disk (those the child left, those cleanup_temp_files could not
\* remove, those left when run returns), and for each line a reader has read
\* from its pipe whether it is one to relay as progress (outlog, errlog)
NewWorker(file, config) ==
    [audio_file |-> file, language |-> config.language,
     model_name |-> config.model_name, device |-> config.device,
     keep_output_files |-> config.keep_output_files,
     whisper_executable |-> whisper_installed,
     is_error_emitted |-> FALSE,
     rpc |-> "start", pend |-> None, cmd |-> <<>>,
     proc |-> "none", returncode |-> 0, txt |-> FALSE,
     read_ok |-> FALSE, content |-> <<>>, transcription |-> <<>>,
     produced |-> {}, undeletable |-> {}, outputs |-> {},
     opc |-> "idle", nout |-> 0, outlog |-> <<>>,
     epc |-> "idle", nerr |-> 0, errlog |-> <<>>, eline |-> None]

\* the values of the language, model and device combo boxes and of the
\* keep-output checkbox that transcribe_audio reads
Languages == {"Auto", "French", "Scottish Gaelic"}
Models == {"turbo", "tiny.en"}
Devices == {"Auto", "GPU (CUDA)", "CPU"}
AllConfigs == [language : Languages, model_name : Models, device : Devices,
               keep_output_files : BOOLEAN]
\* init_ui: setCurrentText("turbo"), ("Auto"), ("Auto"), setChecked(False)
DefaultConfig == [language |-> "Auto", model_name |-> "turbo", device |-> "Auto",
                  keep_output_files |-> FALSE]
\* the default selection with the checkbox either way
KeepConfigs == {[DefaultConfig EXCEPT !.keep_output_files = k] : k \in BOOLEAN}

\* the path string of an audio file: a recording is named relative to the
\* working directory, a file picked in the dialog by its absolute path
PathStr(file) ==
    IF file[1] = "rec" THEN "recording_" \o ToString(file[2]) \o ".wav"
    ELSE "/audio/clip" \o ToString(file[2]) \o ".wav"

\* os.path.dirname(os.path.abspath(audio_file))
DirName(file) == IF file[1] = "rec" THEN "/cwd" ELSE "/audio"

\* if self.language and self.language != "Auto": cmd.extend(...)
LanguageFlag(language) ==
    IF language # "" /\ language # "Auto" THEN <<"--language", language>> ELSE <<>>

\* a device mapping whose CPU branch repeats the CUDA token
DeviceFlagCopied(device) ==
    IF device = "GPU (CUDA)" THEN <<"--device", "cuda">>
    ELSE IF device = "CPU" THEN <<"--device", "cuda">> ELSE <<>>

\* if self.device == "GPU (CUDA)": ... elif self.device == "CPU": ...
DeviceFlag(device) ==
    IF device = "GPU (CUDA)" THEN <<"--device", "cuda">>
    ELSE IF device = "CPU" THEN <<"--device", "cpu">> ELSE <<>>

\* cmd as run builds it
BuildCmd(w) ==
    <<"whisper", PathStr(w.audio_file), "--model", w.model_name>>
    \o LanguageFlag(w.language) \o DeviceFlag(w.device)
    \o <<"--output_dir", DirName(w.audio_file), "--output_format", "txt">>

\* str.strip(): leading and trailing whitespace removed
Whitespace == {" ", "\n"}
RECURSIVE StripLeft(_)
StripLeft(t) == IF t # <<>> /\ Head(t) \in Whitespace THEN StripLeft(Tail(t)) ELSE t
RECURSIVE StripRight(_)
StripRight(t) ==
    IF t # <<>> /\ t[Len(t)] \in Whitespace THEN StripRight(SubSeq(t, 1, Len(t) - 1))
    ELSE t
\* a strip of the left end only
StripLeftOnly(t) == StripLeft(t)
Strip(t) == StripRight(StripLeft(t))

\* cleanup_temp_files: the extensions removed beside the audio's base name
extensions_short == {".txt", ".json", ".srt", ".tsv"}
extensions_to_remove == {".txt", ".json", ".srt", ".tsv", ".vtt"}

\* what the child left on disk and what the file system lets run do with it:
\* the text of <base>.txt, the other sibling files, and the files os.remove
\* fails on
Chars == {"a", " "}
Texts == UNION {[1..k -> Chars] : k \in 0..MaxText}
OtherOutputs == {{}, {".srt"}, {".json", ".srt", ".tsv", ".vtt"}}
Undeletable == {{}, {".txt"}, {".srt"}}
RichOutputs ==
    {o \in [text : Texts, others : OtherOutputs, undeletable : Undeletable] :
        o.undeletable \subseteq ({".txt"} \cup o.others)}
LeanOutputs == {[text |-> <<"a">>, others |-> {}, undeletable |-> {}]}

Jobs == 1..Len(workers)

\* a queue that hands the newest signal to the UI thread first
PostFront(q, j, kind, arg) == <<[job |-> j, kind |-> kind, arg |-> arg]>> \o q

\* signal.emit(arg) from worker j: queued to the UI thread, in emission order
Post(q, j, kind, arg) == Append(q, [job |-> j, kind |-> kind, arg |-> arg])
Emit(j, kind, arg) ==
    /\ queue' = Post(queue, j, kind, arg)
    /\ emitted' = [emitted EXCEPT ![j] = Append(@, kind)]

JobFrame == <<recording, audio_frames, audio_stream, audio, timer_active, recording_time,
              transcription_worker, last_audio_file, enabled, open_streams, session,
              next_chunk, loops, files, disk, dialog, result_text, whisper_installed,
              closed>>

\* a run that emits without testing the flag
RunEmitsUnguarded(w) == TRUE

\* `if not self._is_error_emitted:` at the emission sites of run
RunMayEmit(w) == ~w.is_error_emitted

\* `if not self._is_error_emitted:` in _read_stream
ReaderMayEmit(w) == ~w.is_error_emitted

\* process.wait(); stdout_thread.join(); stderr_thread.join()
Joined(w) == w.proc = "exited" /\ w.opc = "done" /\ w.epc = "done"

\* a run without the test of the executable
ExecutableAssumed(w) == FALSE

\* `if not self.whisper_executable:` in run
ExecutableMissing(w) == ~w.whisper_executable

\* run up to the start of the two reader threads
RunBegin(j) ==
    /\ workers[j].rpc = "start"
    /\ IF ExecutableMissing(workers[j])
       THEN \* error.emit(not found); _is_error_emitted = True; return
            /\ Emit(j, "error", <<"ExecutableNotFound">>)
            /\ workers' = [workers EXCEPT ![j].rpc = "done", ![j].is_error_emitted = TRUE,
                                          ![j].pend = <<"ExecutableNotFound">>]
       ELSE \* the two progress_update emissions, then Popen
            /\ queue' = Post(Post(queue, j, "progress", <<"Preparing">>),
                             j, "progress", <<"Starting">>)
            /\ emitted' = [emitted EXCEPT ![j] = @ \o <<"progress", "progress">>]
            /\ \/ \* Popen raises: except Exception
                  IF RunMayEmit(workers[j])
                  THEN workers' = [workers EXCEPT ![j].rpc = "emit",
                                                  ![j].cmd = BuildCmd(workers[j]),
                                                  ![j].pend = <<"UnexpectedError">>]
                  ELSE workers' = [workers EXCEPT ![j].rpc = "done",
                                                  ![j].cmd = BuildCmd(workers[j])]
               \/ workers' = [workers EXCEPT ![j].rpc = "wait", ![j].proc = "running",
                                             ![j].cmd = BuildCmd(workers[j]),
                                             ![j].opc = "read", ![j].epc = "read"]
    /\ UNCHANGED JobFrame

\* the child process ends: its return code, and whether it wrote <base>.txt
ChildExit(j) ==
    /\ workers[j].proc = "running"
    /\ \E rc \in ExitCodes, t \in BOOLEAN :
          /\ (rc # 0 => ~t)
          /\ workers' = [workers EXCEPT ![j].proc = "exited", ![j].returncode = rc,
                                        ![j].txt = t]
    /\ UNCHANGED <<JobFrame, emitted, queue>>

\* run is past the wait and the joins
RunJoin(j) ==
    /\ workers[j].rpc = "wait"
    /\ Joined(workers[j])
    /\ workers' = [workers EXCEPT ![j].rpc = "post"]
    /\ UNCHANGED <<JobFrame, emitted, queue>>

\* where run goes with a failure message: the flag is tested at the site
Fail(w, msg) ==
    IF RunMayEmit(w) THEN [w EXCEPT !.rpc = "emit", !.pend = msg]
    ELSE [w EXCEPT !.rpc = "done"]

\* a failure message with a fixed code
ProcessFailedOne(w) == <<"ProcessFailed", 1>>

\* f"Whisper process exited with error code: {process.returncode}..."
ProcessFailed(w) == <<"ProcessFailed", w.returncode>>

\* the sibling files left by `if not self.keep_output_files:
\* cleanup_temp_files(...)`: os.remove on each listed extension that exists,
\* failures swallowed
AfterCleanup(keep, present, undeletable) ==
    IF keep THEN present
    ELSE present \ (extensions_to_remove \ undeletable)

\* a run that opens the result file without looking for it
ResultFileAssumed(w) == TRUE

\* `if os.path.exists(txt_file):` in run
ResultFileExists(w) == w.txt

\* run after the joins: return code, result file
RunResult(j, outs) ==
    /\ workers[j].rpc = "post"
    /\ LET w == workers[j] IN
       IF w.returncode = 0
       THEN IF ResultFileExists(w)
            THEN \/ \* the file is read and stripped; cleanup or the saved-to
                    \* progress message; finished.emit(transcription)
                    \E o \in outs :
                       LET present == {".txt"} \cup o.others IN
                       /\ workers' = [workers EXCEPT
                             ![j].rpc = "done", ![j].read_ok = TRUE,
                             ![j].content = o.text,
                             ![j].transcription = Strip(o.text),
                             ![j].produced = present,
                             ![j].undeletable = o.undeletable,
                             ![j].outputs =
                                 AfterCleanup(w.keep_output_files, present, o.undeletable)]
                       /\ queue' =
                             Post(IF w.keep_output_files
                                  THEN Post(queue, j, "progress", <<"Saved">>)
                                  ELSE queue,
                                  j, "finished", <<"Transcript", Strip(o.text)>>)
                       /\ emitted' = [emitted EXCEPT ![j] =
                             @ \o (IF w.keep_output_files THEN <<"progress">> ELSE <<>>)
                               \o <<"finished">>]
                 \/ \* open/read raises: except Exception
                    /\ workers' = [workers EXCEPT ![j] = Fail(w, <<"UnexpectedError">>)]
                    /\ UNCHANGED <<emitted, queue>>
            ELSE /\ workers' = [workers EXCEPT ![j] = Fail(w, <<"ResultFileMissing">>)]
                 /\ UNCHANGED <<emitted, queue>>
       ELSE /\ workers' = [workers EXCEPT ![j] = Fail(w, ProcessFailed(w))]
            /\ UNCHANGED <<emitted, queue>>
    /\ UNCHANGED JobFrame

\* self.error.emit(error_message) in run
RunEmitError(j) ==
    /\ workers[j].rpc = "emit"
    /\ Emit(j, "error", workers[j].pend)
    /\ workers' = [workers EXCEPT ![j].rpc = "set"]
    /\ UNCHANGED JobFrame

\* self._is_error_emitted = True in run, the last statement of its branch
RunSetFlag(j) ==
    /\ workers[j].rpc = "set"
    /\ workers' = [workers EXCEPT ![j].rpc = "done", ![j].is_error_emitted = TRUE]
    /\ UNCHANGED <<JobFrame, emitted, queue>>

\* _read_stream(process.stdout, "stdout"): one line, or end of file
StdoutLines == {"marker", "other", "blank"}
StdoutRead(j, maxLines) ==
    /\ workers[j].opc = "read"
    /\ \/ /\ workers[j].nout < maxLines
          /\ \E line \in StdoutLines :
                /\ workers' = [workers EXCEPT ![j].nout = @ + 1,
                                              ![j].outlog = Append(@, line = "marker")]
                /\ IF line = "marker"
                   THEN Emit(j, "progress", <<"stdout", workers[j].nout + 1>>)
                   ELSE UNCHANGED <<emitted, queue>>
       \/ /\ workers[j].proc = "exited"
          /\ workers' = [workers EXCEPT ![j].opc = "done"]
          /\ UNCHANGED <<emitted, queue>>
    /\ UNCHANGED JobFrame

\* _read_stream(process.stderr, "stderr"): one line, or end of file; a line
\* with "error", "exception" or "failed" tests the flag
StderrLines == {"keyword", "other", "blank"}
StderrRead(j, maxLines) ==
    /\ workers[j].epc = "read"
    /\ \/ /\ workers[j].nerr < maxLines
          /\ \E line \in StderrLines :
                CASE line = "keyword" ->
                        /\ workers' = [workers EXCEPT
                              ![j].nerr = @ + 1,
                              ![j].errlog = Append(@, FALSE),
                              ![j].epc = IF ReaderMayEmit(workers[j]) THEN "emit" ELSE "read",
                              ![j].eline = IF ReaderMayEmit(workers[j])
                                           THEN <<"RuntimeErrorFromChild", workers[j].nerr + 1>>
                                           ELSE @]
                        /\ UNCHANGED <<emitted, queue>>
                  [] line = "other" ->
                        /\ workers' = [workers EXCEPT ![j].nerr = @ + 1,
                                                      ![j].errlog = Append(@, TRUE)]
                        /\ Emit(j, "progress", <<"stderr", workers[j].nerr + 1>>)
                  [] OTHER ->
                        /\ workers' = [workers EXCEPT ![j].nerr = @ + 1,
                                                      ![j].errlog = Append(@, FALSE)]
                        /\ UNCHANGED <<emitted, queue>>
       \/ /\ workers[j].proc = "exited"
          /\ workers' = [workers EXCEPT ![j].epc = "done"]
          /\ UNCHANGED <<emitted, queue>>
    /\ UNCHANGED JobFrame

\* self.error.emit("Whisper CLI Runtime Error: ...") in _read_stream
StderrEmitError(j) ==
    /\ workers[j].epc = "emit"
    /\ Emit(j, "error", workers[j].eline)
    /\ workers' = [workers EXCEPT ![j].epc = "set"]
    /\ UNCHANGED JobFrame

\* self._is_error_emitted = True in _read_stream
StderrSetFlag(j) ==
    /\ workers[j].epc = "set"
    /\ workers' = [workers EXCEPT ![j].epc = "read", ![j].is_error_emitted = TRUE]
    /\ UNCHANGED <<JobFrame, emitted, queue>>

\* ------------------------------------------------------- UI handlers
\* a transcribe_audio without the test of the file
FileAssumed(file) == FALSE

\* `if not self.last_audio_file or not os.path.exists(self.last_audio_file):`
FileMissing(file) == file = None \/ file \notin disk

\* transcribe_audio: the combo boxes and the checkbox hold one of configs
transcribe_audio(file, maxJobs, configs) ==
    IF FileMissing(file)
    THEN /\ dialog' = "NoAudioFile"
         /\ UNCHANGED <<enabled, transcription_worker, jobVars>>
    ELSE /\ Len(workers) < maxJobs
         /\ enabled' = SetEnabled(enabled, Controls, FALSE)
         /\ \E c \in configs : workers' = Append(workers, NewWorker(file, c))
         /\ emitted' = Append(emitted, <<>>)
         /\ transcription_worker' = Len(workers) + 1
         /\ UNCHANGED <<dialog, queue>>

UiFrame == <<recording, audio_frames, audio_stream, audio, timer_active, recording_time,
             open_streams, session, next_chunk, loops, files, disk,
             whisper_installed, closed>>

\* the transcribe button's click handler
TranscribeClick(maxJobs, configs) ==
    /\ ~closed /\ enabled["transcribe_button"]
    /\ transcribe_audio(last_audio_file, maxJobs, configs)
    /\ UNCHANGED <<UiFrame, last_audio_file, result_text>>

\* open_audio_file_and_transcribe: the dialog is accepted with a file
OpenAudioFile(maxJobs, configs) ==
    /\ ~closed /\ enabled["open_file_button"]
    /\ \E f \in ExtFiles :
          /\ last_audio_file' = f
          /\ transcribe_audio(f, maxJobs, configs)
    /\ UNCHANGED <<UiFrame, result_text>>

\* a handler that forgets the record button
ReenableAllButRecord(f) == SetEnabled(f, Controls \ {"record_button"}, TRUE)

\* the seven setEnabled(True) of on_transcription_finished
ReenableAfterFinished(f) == SetEnabled(f, Controls, TRUE)

\* the seven setEnabled(True) of on_transcription_error
ReenableAfterError(f) == SetEnabled(f, Controls, TRUE)

\* self.result_text.setText(f"Error: {error}") in on_transcription_error
TextAfterError(text, error) == <<"Error", error>>

\* the queued signal at the head of the UI thread's event queue is handled:
\* update_status_label, on_transcription_finished or on_transcription_error
Deliver ==
    /\ ~closed /\ queue # <<>>
    /\ queue' = Tail(queue)
    /\ CASE Head(queue).kind = "progress" -> UNCHANGED <<enabled, dialog, result_text>>
         [] Head(queue).kind = "finished" ->
               /\ enabled' = ReenableAfterFinished(enabled)
               /\ result_text' = Head(queue).arg
               /\ UNCHANGED dialog
         [] Head(queue).kind = "error" ->
               /\ enabled' = ReenableAfterError(enabled)
               /\ dialog' = "TranscriptionError"
               /\ result_text' = TextAfterError(result_text, Head(queue).arg)
    /\ UNCHANGED <<UiFrame, last_audio_file, transcription_worker, workers, emitted>>

\* the audio file last_audio_file names is removed or renamed from outside
\* the application
DeleteFile ==
    /\ last_audio_file \in disk
    /\ disk' = disk \ {last_audio_file}
    /\ UNCHANGED <<recording, audio_frames, audio_stream, audio, timer_active,
                   recording_time, transcription_worker, last_audio_file, enabled,
                   result_text, open_streams, session, next_chunk, loops, files, dialog,
                   whisper_installed, jobVars, closed>>

\* QThread.isRunning(): started and run has not returned
isRunning(w) == w.rpc \notin {"done", "killed"}

\* closeEvent: stop_recording if recording; terminate() and wait() on the
\* current worker if it is running; audio.terminate()
CloseEvent ==
    /\ ~closed
    /\ closed' = TRUE
    /\ IF recording THEN StopBody
       ELSE UNCHANGED <<recording, timer_active, audio_stream, dialog, enabled, files,
                        disk, last_audio_file, audio_frames, recording_time, session,
                        next_chunk, loops>>
    /\ open_streams' = IF audio THEN {}
                       ELSE IF recording THEN StreamsAfterStop ELSE open_streams
    /\ IF transcription_worker # 0 /\ isRunning(workers[transcription_worker])
       THEN workers' = [workers EXCEPT ![transcription_worker].rpc = "killed"]
       ELSE UNCHANGED workers
    /\ UNCHANGED <<audio, transcription_worker, result_text, whisper_installed,
                   emitted, queue>>

\* the steps of the worker threads and of the child processes, each child
\* writing at most maxLines lines to each stream and leaving one of outs
WorkerSteps(maxLines, outs) ==
    \/ \E j \in Jobs : RunBegin(j)
    \/ \E j \in Jobs : ChildExit(j)
    \/ \E j \in Jobs : RunJoin(j)
    \/ \E j \in Jobs : RunResult(j, outs)
    \/ \E j \in Jobs : RunEmitError(j)
    \/ \E j \in Jobs : RunSetFlag(j)
    \/ \E j \in Jobs : StdoutRead(j, maxLines)
    \/ \E j \in Jobs : StderrRead(j, maxLines)
    \/ \E j \in Jobs : StderrEmitError(j)
    \/ \E j \in Jobs : StderrSetFlag(j)

\* the same steps for children that write nothing: each reader only meets
\* the end of its stream
SilentSteps(outs) ==
    \/ \E j \in Jobs : RunBegin(j)
    \/ \E j \in Jobs : ChildExit(j)
    \/ \E j \in Jobs : RunJoin(j)
    \/ \E j \in Jobs : RunResult(j, outs)
    \/ \E j \in Jobs : RunEmitError(j)
    \/ \E j \in Jobs : RunSetFlag(j)
    \/ \E j \in Jobs : StdoutRead(j, 0)
    \/ \E j \in Jobs : StderrRead(j, 0)

\* the recording controller alone: the record button, the timer, the capture
\* loops and the window's close
NextRec ==
    \/ ToggleStart
    \/ ToggleStop
    \/ UpdateRecordingTime
    \/ CloseEvent
    \/ \E t \in 1..MaxSessions : LoopTest(t)
    \/ \E t \in 1..MaxSessions : LoopRead(t)
    \/ \E t \in 1..MaxSessions : LoopReturn(t)
    \/ \E t \in 1..MaxSessions : LoopAppend(t)

SpecRec == Init /\ [][NextRec]_vars

\* one submitted transcription job (nothing is recorded, so the job comes
\* from the file dialog), its child writing up to MaxLines lines to each stream
NextOneJob ==
    \/ OpenAudioFile(1, {DefaultConfig})
    \/ Deliver
    \/ CloseEvent
    \/ WorkerSteps(MaxLines, LeanOutputs)

SpecJob == Init /\ [][NextOneJob]_vars

\* up to MaxJobs transcription jobs, each child writing up to JobsLines lines
NextJobs ==
    \/ TranscribeClick(MaxJobs, {DefaultConfig})
    \/ OpenAudioFile(MaxJobs, {DefaultConfig})
    \/ Deliver
    \/ CloseEvent
    \/ WorkerSteps(JobsLines, LeanOutputs)

SpecJobs == Init /\ [][NextJobs]_vars

\* the whole application
Next == NextRec \/ NextJobs

Spec == Init /\ [][Next]_vars

\* one job and what its child leaves on disk: the checkbox either way, up to
\* JobsLines lines on each stream, every result text of up to MaxText characters
NextRun ==
    \/ OpenAudioFile(1, KeepConfigs)
    \/ Deliver
    \/ CloseEvent
    \/ WorkerSteps(JobsLines, RichOutputs)

SpecRun == Init /\ [][NextRun]_vars

\* one job under every selection of language, model, device and checkbox,
\* its child writing no lines
NextCmd ==
    \/ OpenAudioFile(1, AllConfigs)
    \/ Deliver
    \/ CloseEvent
    \/ SilentSteps(LeanOutputs)

SpecCmd == Init /\ [][NextCmd]_vars

\* the window's transcription controls over up to MaxJobs jobs whose children
\* write no lines, the audio file being removable from outside
NextUi ==
    \/ TranscribeClick(MaxJobs, {DefaultConfig})
    \/ OpenAudioFile(MaxJobs, {DefaultConfig})
    \/ Deliver
    \/ CloseEvent
    \/ DeleteFile
    \/ SilentSteps(LeanOutputs)

SpecUi == Init /\ [][NextUi]_vars

\* the same, the UI thread's event loop handling every queued signal in the end
SpecUiFair == SpecUi /\ WF_vars(Deliver)

\* the application where PyAudio() raised in setup_audio: no recording is
\* possible, the record button is disabled until a transcription handler
\* enables it
InitNoDevice == Init /\ ~audio

NextNoDevice ==
    \/ ToggleStart
    \/ TranscribeClick(MaxJobs, {DefaultConfig})
    \/ OpenAudioFile(MaxJobs, {DefaultConfig})
    \/ Deliver
    \/ CloseEvent
    \/ SilentSteps(LeanOutputs)

SpecNoDevice == InitNoDevice /\ [][NextNoDevice]_vars

\* recording and one transcription job together: the record button and the
\* capture loops, for up to BothSessions presses of the record button, beside
\* a job submitted from a recording or from the file dialog, its child
\* writing up to JobsLines lines to each stream
NextBoth ==
    \/ session < BothSessions /\ ToggleStart
    \/ ToggleStop
    \/ \E t \in 1..BothSessions : LoopTest(t)
    \/ \E t \in 1..BothSessions : LoopRead(t)
    \/ \E t \in 1..BothSessions : LoopReturn(t)
    \/ \E t \in 1..BothSessions : LoopAppend(t)
    \/ TranscribeClick(1, {DefaultConfig})
    \/ OpenAudioFile(1, {DefaultConfig})
    \/ Deliver
    \/ CloseEvent
    \/ WorkerSteps(JobsLines, LeanOutputs)

SpecBoth == Init /\ [][NextBoth]_vars

\* ------------------------------------------------------------ properties
Terminal == {"error", "finished"}
Count(seq, S) == Cardinality({i \in 1..Len(seq) : seq[i] \in S})

\* a reader thread that has been started and has not returned
StdoutReaderRunning(w) == w.opc = "read"
StderrReaderRunning(w) == w.epc \in {"read", "emit", "set"}

\* a worker whose run, child process or readers have not finished
InFlight(w) ==
    \/ isRunning(w)
    \/ w.proc = "running"
    \/ StdoutReaderRunning(w)
    \/ StderrReaderRunning(w)

\* C1: every job delivers exactly one terminal notification: never more than
\* one of finished and error together, and exactly one once run has returned.
C1_ExactlyOneTerminal ==
    \A j \in Jobs :
        /\ Count(emitted[j], Terminal) <= 1
        /\ workers[j].rpc = "done" => Count(emitted[j], Terminal) = 1

\* C2: the terminal notification of a job is its last notification: nothing,
\* progress or terminal, is emitted after an error or a finished.
C2_TerminalIsLast ==
    \A j \in Jobs : \A i \in 1..Len(emitted[j]) :
        emitted[j][i] \in Terminal => i = Len(emitted[j])

\* C3: a worker emits the error signal at most once, under every interleaving
\* of its stderr reader and its run thread.
C3_AtMostOneError ==
    \A j \in Jobs : Count(emitted[j], {"error"}) <= 1

\* a job whose stderr reader reported a keyword line and whose run then came
\* to the nonzero-exit site and, the flag being set, emitted nothing
C3_Witness ==
    \E j \in Jobs :
        /\ workers[j].rpc = "done"
        /\ workers[j].proc = "exited" /\ workers[j].returncode # 0
        /\ workers[j].pend = None
        /\ workers[j].is_error_emitted
        /\ Count(emitted[j], {"error"}) = 1

\* C4: at most one transcription job is in flight: no worker is started
\* while an earlier worker's run, child or readers are unfinished.
C4_OneJobInFlight ==
    Cardinality({j \in Jobs : InFlight(workers[j])}) <= 1

\* C5: the file stop_recording writes for a session holds every chunk the
\* capture loop appended to that session's buffer, in order, as mono
\* 44100 Hz 16-bit audio.
C5_FileHoldsAllChunks ==
    \A i \in 1..Len(files) :
        /\ files[i].nchannels = 1 /\ files[i].framerate = 44100 /\ files[i].sampwidth = 2
        /\ files[i].sess = session => files[i].frames = audio_frames

\* the step of stop_recording: the only code that sets audio_stream to None
StopStep == audio_stream # 0 /\ audio_stream' = 0

\* C6: stop_recording on an empty buffer writes no file, reports
\* EmptyRecording, keeps last_audio_file and leaves the controller idle
\* (flag false, timer stopped, the session's stream closed).
C6_EmptyStop ==
    [][StopStep /\ audio_frames = <<>> =>
          /\ files' = files /\ disk' = disk
          /\ dialog' = "EmptyRecording"
          /\ last_audio_file' = last_audio_file
          /\ ~recording' /\ ~timer_active'
          /\ audio_stream \notin open_streams']_vars

\* a second session stopped empty after a first one wrote its file
C6_Witness ==
    /\ session = 2 /\ ~recording /\ audio_stream = 0
    /\ audio_frames = <<>>
    /\ dialog = "EmptyRecording"
    /\ last_audio_file = <<"rec", 1>>
    /\ Len(files) = 1

\* C7: once closeEvent has returned no stdout or stderr reader of any job is
\* still running.
C7_ReadersJoinedAtClose ==
    closed => \A j \in Jobs : ~StdoutReaderRunning(workers[j])
                              /\ ~StderrReaderRunning(workers[j])

\* C8: at most one input stream is open in any reachable state.
C8_OneStreamOpen == Cardinality(open_streams) <= 1

\* C9: the elapsed-seconds timer runs only while the recording flag is true.
C9_TimerOnlyWhileRecording == timer_active => recording

\* C10: at most one capture loop is inside its loop body at a time, and the
\* session buffer holds only chunks read by the session's own loop.
C10_OneCaptureLoop ==
    /\ Cardinality({t \in 1..MaxSessions : loops[t].pc \in {"read", "wait", "append"}}) <= 1
    /\ \A i \in 1..Len(audio_frames) : audio_frames[i][1] = session

\* a run that has returned after its child exited
Returned(w) == w.rpc = "done" /\ w.proc = "exited"

\* the arguments of the finished signals job j has emitted that the UI thread
\* has not handled yet
FinishedArgs(j) ==
    {queue[i].arg : i \in {k \in 1..Len(queue) :
                              queue[k].job = j /\ queue[k].kind = "finished"}}

\* t is c without its leading and trailing whitespace
IsTrimOf(t, c) ==
    \E a \in 0..Len(c), b \in 0..Len(c) :
        /\ a + Len(t) + b = Len(c)
        /\ \A i \in 1..Len(t) : t[i] = c[a + i]
        /\ \A i \in 1..a : c[i] \in {" ", "\n"}
        /\ \A i \in (Len(c) - b + 1)..Len(c) : c[i] \in {" ", "\n"}
        /\ Len(t) > 0 => t[1] \notin {" ", "\n"} /\ t[Len(t)] \notin {" ", "\n"}

\* C11 as stated: a child that exits 0 and a result file that exists give a
\* success whose transcript is the file's trimmed contents.
C11_SuccessWheneverFileExists ==
    \A j \in Jobs :
        Returned(workers[j]) /\ workers[j].returncode = 0 /\ workers[j].txt =>
            /\ Count(emitted[j], {"finished"}) = 1
            /\ IsTrimOf(workers[j].transcription, workers[j].content)

\* C11: when the child exits 0, the result file exists and it is opened and
\* read without an exception, the job reports success exactly once and the
\* transcript it reports is the file's contents without leading and trailing
\* whitespace.
C11_TrimmedTranscript ==
    \A j \in Jobs :
        Returned(workers[j]) /\ workers[j].returncode = 0 /\ workers[j].txt
        /\ workers[j].read_ok =>
            /\ Count(emitted[j], {"finished"}) = 1
            /\ IsTrimOf(workers[j].transcription, workers[j].content)
            /\ FinishedArgs(j) \subseteq {<<"Transcript", workers[j].transcription>>}

\* a result file with whitespace at both ends and inside, read and reported,
\* its notification still queued
C11_Witness ==
    \E j \in Jobs :
        /\ Returned(workers[j]) /\ workers[j].read_ok
        /\ workers[j].content = <<" ", "a", " ">>
        /\ FinishedArgs(j) = {<<"Transcript", <<"a">>>>}

\* C12: when the child exits 0, no result file exists and the stderr reader
\* reported no error, run reports ResultFileMissing, once, and no success.
C12_ResultFileMissing ==
    \A j \in Jobs :
        Returned(workers[j]) /\ workers[j].returncode = 0 /\ ~workers[j].txt
        /\ workers[j].eline = None =>
            /\ workers[j].pend = <<"ResultFileMissing">>
            /\ Count(emitted[j], {"error"}) = 1
            /\ Count(emitted[j], {"finished"}) = 0
            /\ ~workers[j].read_ok

\* the ResultFileMissing failure handled by the UI thread
C12_Witness ==
    \E j \in Jobs :
        /\ Returned(workers[j]) /\ workers[j].returncode = 0 /\ ~workers[j].txt
        /\ workers[j].eline = None
        /\ result_text = <<"Error", <<"ResultFileMissing">>>>

\* C13: when the child exits with a nonzero code and the stderr reader
\* reported no error, run reports ProcessFailed with that code, once; it
\* reads no result file and reports no success.
C13_ProcessFailed ==
    \A j \in Jobs :
        Returned(workers[j]) /\ workers[j].returncode # 0 /\ workers[j].eline = None =>
            /\ workers[j].pend = <<"ProcessFailed", workers[j].returncode>>
            /\ Count(emitted[j], {"error"}) = 1
            /\ Count(emitted[j], {"finished"}) = 0
            /\ ~workers[j].read_ok

\* exit code 2 reported to the UI thread
C13_Witness ==
    \E j \in Jobs :
        /\ Returned(workers[j]) /\ workers[j].returncode = 2
        /\ workers[j].eline = None
        /\ result_text = <<"Error", <<"ProcessFailed", 2>>>>

\* the job reported success and its run has returned
Succeeded(j) == Returned(workers[j]) /\ Count(emitted[j], {"finished"}) = 1

\* C14 as stated: after a successful job with keepOutputFiles false none of
\* the five sibling files remains; with keepOutputFiles true all are untouched.
C14_NoSiblingRemains ==
    \A j \in Jobs :
        Succeeded(j) =>
            IF workers[j].keep_output_files
            THEN workers[j].outputs = workers[j].produced
            ELSE workers[j].outputs \cap {".txt", ".json", ".srt", ".tsv", ".vtt"} = {}

\* C14: after a successful job with keepOutputFiles false, every sibling file
\* .txt/.json/.srt/.tsv/.vtt of the audio's base name whose removal did not
\* fail is gone, and one whose removal failed is still there; with
\* keepOutputFiles true the files the child left are all still there.
C14_CleanupBestEffort ==
    \A j \in Jobs :
        Succeeded(j) =>
            IF workers[j].keep_output_files
            THEN workers[j].outputs = workers[j].produced
            ELSE \A e \in {".txt", ".json", ".srt", ".tsv", ".vtt"} :
                    e \in workers[j].outputs <=>
                        e \in workers[j].produced /\ e \in workers[j].undeletable

\* a successful job without keepOutputFiles whose child left all five files,
\* the removal of one of them failing
C14_Witness ==
    \E j \in Jobs :
        /\ Succeeded(j) /\ ~workers[j].keep_output_files
        /\ workers[j].produced = {".txt", ".json", ".srt", ".tsv", ".vtt"}
        /\ workers[j].undeletable = {".srt"}
        /\ workers[j].outputs = {".srt"}

\* the step of run that starts job j's child process
Launch(j) == workers[j].proc = "none" /\ workers'[j].proc = "running"

\* C15 as stated: transcribe_audio on an unset or missing artifact creates no
\* job and changes neither controls nor artifact reference, and no child is
\* launched against a path that does not exist at the moment of launch.
C15_ExistsAtLaunch ==
    [][/\ TranscribeClick(MaxJobs, {DefaultConfig})
          /\ (last_audio_file = None \/ last_audio_file \notin disk)
          => UNCHANGED <<workers, emitted, queue, enabled, last_audio_file>>
       /\ \A j \in Jobs : Launch(j) => workers[j].audio_file \in disk]_vars

\* C15: transcribe_audio on an unset or missing artifact creates no job,
\* starts no child and changes neither controls nor artifact reference; a job
\* is created only for an artifact that exists on disk when transcribe_audio
\* tests it, and a child is launched only for such a job.
C15_ExistsAtSubmission ==
    [][/\ TranscribeClick(MaxJobs, {DefaultConfig})
          /\ (last_audio_file = None \/ last_audio_file \notin disk)
          => UNCHANGED <<workers, emitted, queue, enabled, last_audio_file>>
       /\ Len(workers') > Len(workers) =>
             /\ Len(workers') = Len(workers) + 1
             /\ workers'[Len(workers')].audio_file # None
             /\ workers'[Len(workers')].audio_file \in disk
             /\ workers'[Len(workers')].proc = "none"
       /\ \A j \in Jobs : Launch(j) => workers[j].audio_file # None]_vars

\* the transcribe button pressed after the file of an earlier job was removed:
\* the warning, and still one job
C15_Witness ==
    /\ dialog = "NoAudioFile"
    /\ last_audio_file # None /\ last_audio_file \notin disk
    /\ Len(workers) = 1
    /\ enabled["transcribe_button"]

\* C16: a job whose worker found no whisper executable launches no child and
\* starts no reader; it emits nothing but one error, ExecutableNotFound, and
\* has emitted it when run returns.
C16_ExecutableNotFound ==
    \A j \in Jobs :
        ~workers[j].whisper_executable =>
            /\ workers[j].proc = "none" /\ workers[j].cmd = <<>>
            /\ workers[j].opc = "idle" /\ workers[j].epc = "idle"
            /\ emitted[j] \in {<<>>, <<"error">>}
            /\ workers[j].rpc = "done" =>
                  /\ emitted[j] = <<"error">>
                  /\ workers[j].pend = <<"ExecutableNotFound">>
            /\ \A i \in 1..Len(queue) :
                  queue[i].job = j => queue[i].arg = <<"ExecutableNotFound">>

\* the ExecutableNotFound failure handled by the UI thread, nothing launched
C16_Witness ==
    \E j \in Jobs :
        /\ ~workers[j].whisper_executable
        /\ workers[j].rpc = "done" /\ workers[j].proc = "none"
        /\ queue = <<>>
        /\ result_text = <<"Error", <<"ExecutableNotFound">>>>

\* on_transcription_error handles the failure at the head of the queue while
\* the transcript of an earlier job is displayed
ErrorOverTranscript ==
    /\ Deliver
    /\ Head(queue).kind = "error"
    /\ result_text # None /\ result_text[1] = "Transcript"

\* C17: when a job's failure notification is handled, the transcript
\* displayed from an earlier successful job is unchanged.
C17_PriorTranscriptKept ==
    [][ErrorOverTranscript => result_text' = result_text]_vars

\* the seven controls transcribe_audio disables are all enabled
AllEnabled == \A c \in Controls : enabled[c]

\* job j's finished or error signal is queued for the UI thread
TerminalPending(j) ==
    \E i \in 1..Len(queue) : queue[i].job = j /\ queue[i].kind \in Terminal

\* C18: every job disables the seven controls when it is submitted; a job
\* whose run has returned has emitted its terminal notification; the handler
\* of a terminal notification, success or failure, leaves all seven controls
\* enabled; and every queued terminal notification is handled, so the controls
\* are enabled again, unless the window is closed first.
C18_ControlsReenabled ==
    /\ [][Len(workers') > Len(workers) => \A c \in Controls : ~enabled'[c]]_vars
    /\ [](\A j \in Jobs : workers[j].rpc = "done" => Count(emitted[j], Terminal) >= 1)
    /\ [][Deliver /\ Head(queue).kind \in Terminal => AllEnabled']_vars
    /\ \A j \in 1..MaxJobs : TerminalPending(j) ~> (closed \/ AllEnabled)

\* the second job's failure is handled and nothing is pending: the controls
\* are enabled on a machine where setup_audio had disabled the record button
C18_Witness ==
    /\ Len(workers) = 2 /\ workers[2].rpc = "done"
    /\ queue = <<>> /\ ~closed
    /\ dialog = "TranscriptionError"
    /\ ~audio /\ AllEnabled

\* the tokens of cmd
HasToken(cmd, a) == \E i \in 1..Len(cmd) : cmd[i] = a
\* cmd has flag a once, followed by value b
HasFlag(cmd, a, b) ==
    /\ Cardinality({i \in 1..Len(cmd) : cmd[i] = a}) = 1
    /\ \E i \in 1..(Len(cmd) - 1) : cmd[i] = a /\ cmd[i + 1] = b

\* C19: the argv run hands to Popen is the executable, the audio path,
\* --model <name>, then --language L exactly when the language is not "Auto",
\* --device cuda for "GPU (CUDA)", --device cpu for "CPU" and no device flag
\* for "Auto", and --output_dir <the audio file's directory> --output_format txt.
C19_InvocationFlags ==
    \A j \in Jobs :
        LET w == workers[j]
            cmd == workers[j].cmd
        IN  cmd # <<>> =>
            /\ cmd[2] = PathStr(w.audio_file)
            /\ HasFlag(cmd, "--model", w.model_name)
            /\ HasFlag(cmd, "--output_dir", DirName(w.audio_file))
            /\ HasFlag(cmd, "--output_format", "txt")
            /\ IF w.language = "Auto" THEN ~HasToken(cmd, "--language")
               ELSE HasFlag(cmd, "--language", w.language)
            /\ CASE w.device = "GPU (CUDA)" -> HasFlag(cmd, "--device", "cuda")
                 [] w.device = "CPU" -> HasFlag(cmd, "--device", "cpu")
                 [] OTHER -> ~HasToken(cmd, "--device")
            /\ Len(cmd) = 8 + (IF w.language = "Auto" THEN 0 ELSE 2)
                            + (IF w.device = "Auto" THEN 0 ELSE 2)

\* a child launched with a two-word language and the CPU device
C19_Witness ==
    \E j \in Jobs :
        /\ workers[j].proc = "running"
        /\ workers[j].language = "Scottish Gaelic" /\ workers[j].device = "CPU"
        /\ workers[j].cmd = <<"whisper", "/audio/clip1.wav", "--model", "tiny.en",
                              "--language", "Scottish Gaelic", "--device", "cpu",
                              "--output_dir", "/audio", "--output_format", "txt">>

\* C20: start_recording without an initialized capture device reports
\* DeviceUnavailable and changes nothing else: no stream is opened, no capture
\* loop or timer is started, the flag stays false, buffer and controls are as
\* they were.
C20_DeviceUnavailable ==
    [][ToggleStart /\ ~audio =>
          /\ dialog' = "DeviceUnavailable"
          /\ ~recording' /\ ~timer_active'
          /\ open_streams' = {} /\ audio_stream' = 0
          /\ \A t \in 1..MaxSessions : loops'[t].pc = "none"
          /\ UNCHANGED <<audio_frames, enabled, session, recording_time, files,
                         last_audio_file>>]_vars

\* the record button, enabled by a transcription handler, pressed on a
\* machine where PyAudio() raised
C20_Witness ==
    /\ ~audio /\ dialog = "DeviceUnavailable"
    /\ ~recording /\ ~timer_active /\ open_streams = {} /\ session = 0
    /\ enabled["record_button"]

\* the stderr reader of w has reported a keyword line as the job's failure
StderrErrorReported(w) == w.eline # None /\ w.epc # "emit"

\* C21: a stderr line with "error", "exception" or "failed" is fatal: the
\* first one is reported as the job's failure and carries the line, no later
\* one is reported, and the job reports no success.
C21_StderrErrorIsFatal ==
    \A j \in Jobs :
        StderrErrorReported(workers[j]) =>
            /\ Count(emitted[j], {"error"}) = 1
            /\ workers[j].eline[1] = "RuntimeErrorFromChild"
            /\ Count(emitted[j], {"finished"}) = 0

\* the progress notification relaying line n of a stream of job j
StreamProgress(j, stream, n) == [job |-> j, kind |-> "progress", arg |-> <<stream, n>>]

\* the reader of a stream has read one more line: log is its record before
\* the step, log2 after; a line to relay puts its notification at the end of
\* the UI thread's queue, any other line leaves the queue as it is
RelaysLine(j, stream, log, log2) ==
    Len(log2) # Len(log) =>
        /\ Len(log2) = Len(log) + 1
        /\ queue' = IF log2[Len(log2)]
                    THEN Append(queue, StreamProgress(j, stream, Len(log2)))
                    ELSE queue

\* the queue loses nothing but its head and gains nothing but at its end
FifoStep ==
    \/ queue' = queue
    \/ queue # <<>> /\ queue' = Tail(queue)
    \/ Len(queue') > Len(queue) /\ SubSeq(queue', 1, Len(queue)) = queue

\* the line numbers of the queued progress notifications of one stream of job j
QueuedLines(j, stream) ==
    LET idx == {i \in 1..Len(queue) :
                   /\ queue[i].job = j /\ queue[i].kind = "progress"
                   /\ queue[i].arg[1] = stream}
    IN  [i \in idx |-> queue[i].arg[2]]

\* queued notifications of one stream are in line order, one per line, each
\* for a line the reader has read and that is one to relay
InStreamOrder(j, stream, log) ==
    LET q == QueuedLines(j, stream) IN
    /\ \A a, b \in DOMAIN q : a < b => q[a] < q[b]
    /\ \A a \in DOMAIN q : q[a] \in 1..Len(log) /\ log[q[a]]

\* C22: for each of stdout and stderr, every line to relay (a stdout line with
\* a marker, a non-blank stderr line without an error keyword) is sent as one
\* progress notification when it is read, no other line of the stream is, the
\* notifications reach the UI thread's queue in the order the lines were read,
\* and the UI thread takes them from the queue in that order.
C22_ProgressInStreamOrder ==
    /\ [][\A j \in Jobs :
             /\ RelaysLine(j, "stdout", workers[j].outlog, workers'[j].outlog)
             /\ RelaysLine(j, "stderr", workers[j].errlog, workers'[j].errlog)]_vars
    /\ [][FifoStep]_vars
    /\ [](\A j \in Jobs :
             /\ InStreamOrder(j, "stdout", workers[j].outlog)
             /\ InStreamOrder(j, "stderr", workers[j].errlog))

\* two stdout lines with a marker and a stderr line between them, all three
\* queued in the order they were read
C22_Witness ==
    \E j \in Jobs : \E a, b, c \in 1..Len(queue) :
        /\ a < b /\ b < c
        /\ queue[a] = StreamProgress(j, "stdout", 1)
        /\ queue[b] = StreamProgress(j, "stderr", 1)
        /\ queue[c] = StreamProgress(j, "stdout", 2)

\* C23: a recording session's chunks are discarded only once stop_recording
\* has flushed them to a file (or reported that it could not): the chunks of a
\* session that a read failure of the capture loop ended, and that was never
\* stopped, are not discarded by the next press of the record control.
C23_ReadFailureKeepsChunks ==
    [][ToggleStart /\ audio_stream # 0 /\ audio_frames # <<>> =>
          audio_frames' = audio_frames]_vars

\* C24: stop_recording ends in one of three outcomes (empty recording, file
\* written, write failure reported) and in each the flag is false, the
\* session's stream is closed and the timer is stopped; a write failure
\* writes nothing, keeps last_audio_file, and leaves the record control usable
\* for a new recording.
C24_StopReturnsToIdle ==
    [][StopStep =>
          /\ ~recording' /\ ~timer_active'
          /\ audio_stream' = 0 /\ audio_stream \notin open_streams'
          /\ \/ /\ audio_frames = <<>>
                /\ dialog' = "EmptyRecording"
                /\ files' = files /\ last_audio_file' = last_audio_file
             \/ /\ audio_frames # <<>>
                /\ Len(files') = Len(files) + 1
                /\ last_audio_file' = <<"rec", session>> /\ last_audio_file' \in disk'
                /\ enabled'["transcribe_button"]
             \/ /\ audio_frames # <<>>
                /\ dialog' = "RecordingWriteFailed"
                /\ files' = files /\ disk' = disk
                /\ last_audio_file' = last_audio_file
                /\ ~enabled'["transcribe_button"]
          /\ ~closed' => enabled'["record_button"] /\ audio']_vars

\* a second recording running after the first one could not be written
C24_Witness ==
    /\ dialog = "RecordingWriteFailed"
    /\ session = 2 /\ recording /\ audio_stream = 2
    /\ files = <<>> /\ last_audio_file = None

\* the child process of some job is running
ChildRunning == \E j \in Jobs : workers[j].proc = "running"

\* C25: recording and transcription are never in flight together: while the
\* recording flag is true no job's child runs and the transcribe and
\* open-file controls are disabled, and while a job's child runs the record
\* control is disabled.
C25_NeverTogether ==
    /\ recording => /\ ~ChildRunning
                    /\ ~enabled["transcribe_button"]
                    /\ ~enabled["open_file_button"]
    /\ ChildRunning => ~enabled["record_button"]

\* C26: the transcribe control is enabled only if last_audio_file is set.
C26_TranscribeNeedsArtifact ==
    enabled["transcribe_button"] => last_audio_file # None
====
